---- MODULE Spec2Model ----
(***************************************************************************)
(* Model of postgres-mcp (src/src/core.ts, src/src/utils.ts,              *)
(* src/src/constants.ts): the process-wide connection registry             *)
(* (initConnections, closeConnections, validateDbAlias, fetchTableSchema), *)
(* the transaction coordinator (executeTransaction, transaction_tool),     *)
(* and the gateway: the server's authenticate hook, the statement          *)
(* executor, the schema introspector and the serializer.                   *)
(***************************************************************************)
EXTENDS Integers, Sequences, FiniteSets, TLC

VARIABLES
    connections,     \* core.ts:26  ordered alias -> handle map (own properties, insertion order)
    live,            \* handles opened by postgres() on which end() has not been invoked
    defaultDbAlias,  \* serverConfig.defaultDbAlias (constants.ts:15-17, 77-82)
    initCalls,       \* number of initConnections calls made so far
    sd,              \* the closeConnections call in flight (an async function)
    last,            \* the registry operation that acted last, with its inputs and its result
    db,              \* writes committed in the database behind the resolved connection
    tx,              \* the executeTransaction / transaction_tool call in flight
    txCalls,         \* number of transaction calls made so far
    srv,             \* the server createMcpServer built: its config and authenticate hook
    session,         \* the client session of the network transport, and the key it presented
    catalog,         \* information_schema of the database behind the resolved connection
    rq               \* the gateway operation that ran last, with its inputs and its result

regVars == <<connections, live, defaultDbAlias, initCalls, sd, last>>
txVars == <<db, tx, txCalls>>
gwVars == <<srv, session, catalog, rq>>
vars == <<connections, live, defaultDbAlias, initCalls, sd, last, db, tx, txCalls,
          srv, session, catalog, rq>>

----------------------------------------------------------------------------
(* Bounds *)
MaxConfigs == 2      \* entries in one alias -> config mapping
MaxInitCalls == 2    \* initConnections calls in one behaviour
MaxOps == 2          \* operations in one transaction call
MaxRows == 1         \* largest row count the driver reports for a statement
MaxTxCalls == 2      \* transaction calls in one behaviour
MaxColumns == 1      \* columns of a table in the catalog

(* Program constants *)
DEFAULT_DB_ALIAS == "main"

\* Alias strings a mapping may hold: two ordinary names and the empty name
\* that loadDbAliases yields for "main,,reporting" (constants.ts:10-13).
Aliases == {"main", "reporting", ""}

\* Names found on Object.prototype: connections is a plain {} literal, so
\* connections[name] is a truthy non-handle for these when not own.
ObjectPrototypeNames == {"constructor"}

\* Alias strings a caller may pass: the above and an unregistered one.
LookupNames == Aliases \cup ObjectPrototypeNames

\* A handle returned by postgres() is <<n, alias>>: the alias it was opened
\* for and the number n of the initConnections call that opened it.
IsHandle(x) == Len(x) = 2

\* Results of a property read that is not a handle.
NoSql == <<>>                \* undefined
ProtoMember == <<"Object">>  \* an inherited Object.prototype member (truthy)

\* An optional dbAlias argument: <<>> when omitted, <<a>> when given.
Omitted == <<>>
DbAliasArgs == {Omitted} \cup {<<a>> : a \in LookupNames}

----------------------------------------------------------------------------
(* The ordered object `connections` *)

Keys(c) == [i \in DOMAIN c |-> c[i].alias]

KeySet(c) == {c[i].alias : i \in DOMAIN c}

Range(s) == {s[i] : i \in DOMAIN s}

SqlSet(c) == {c[i].sql : i \in DOMAIN c}

\* connections[a]: own property first, then the prototype chain.
Get(c, a) ==
    IF a \in KeySet(c)
    THEN c[CHOOSE i \in DOMAIN c : c[i].alias = a].sql
    ELSE IF a \in ObjectPrototypeNames THEN ProtoMember ELSE NoSql

\* JavaScript truthiness of an optional string: omitted and "" are falsy.
Falsy(dbAlias) == dbAlias = Omitted \/ dbAlias = <<"">>

----------------------------------------------------------------------------
(* Alias -> config mappings handed to initConnections: the entries of an
   object in insertion order, so a sequence of distinct aliases.  The
   per-alias DatabaseConfig does not influence the registry. *)

RECURSIVE DistinctSeqs(_)
DistinctSeqs(n) ==
    IF n = 0 THEN {<<>>}
    ELSE LET shorter == DistinctSeqs(n - 1)
         IN shorter \cup
            {Append(s, a) : s \in {t \in shorter : Len(t) = n - 1},
                            a \in Aliases}

ConfigMappings ==
    {s \in DistinctSeqs(MaxConfigs) :
        \A i, j \in DOMAIN s : i # j => s[i] # s[j]}

----------------------------------------------------------------------------
(* initConnections, core.ts:29-130 *)

\* core.ts:56-129: one postgres() call per entry, in order; an entry whose
\* postgres() call throws (alias in openThrows) leaves no property behind.
RECURSIVE CreateConnections(_, _, _)
CreateConnections(aliases, openThrows, n) ==
    IF aliases = <<>> THEN <<>>
    ELSE IF Head(aliases) \in openThrows
         THEN CreateConnections(Tail(aliases), openThrows, n)
         ELSE <<[alias |-> Head(aliases), sql |-> <<n, Head(aliases)>>]>>
              \o CreateConnections(Tail(aliases), openThrows, n)

ResetConnectionsKeeps(c) == c

\* core.ts:41-53: end() is called (not awaited) on every stored handle, a
\* synchronous throw is swallowed, then every key is deleted.
ResetConnections(c) == <<>>

NoConfigsNever(configs) == FALSE

\* core.ts:34: Object.keys(dbConfigs).length === 0
NoConfigs(configs) == Len(configs) = 0

\* core.ts:34-39: an empty mapping returns before anything is touched.
\* Alternative: the call yields after it has installed the first entry of
\* the mapping, so that the half-built map is what other calls read.
InitConnectionsEntryByEntry(configs, openThrows) ==
    /\ initCalls < MaxInitCalls
    /\ initCalls' = initCalls + 1
    /\ IF NoConfigs(configs)
       THEN UNCHANGED <<connections, live>>
       ELSE /\ connections' =
                  ResetConnections(connections)
                  \o CreateConnections(SubSeq(configs, 1, 1), openThrows,
                                       initCalls + 1)
            /\ live' = (live \ SqlSet(connections))
                       \cup SqlSet(CreateConnections(SubSeq(configs, 1, 1),
                                                     openThrows,
                                                     initCalls + 1))
    /\ last' = [op |-> "initConnections", configs |-> configs,
                openThrows |-> openThrows]
    /\ UNCHANGED <<defaultDbAlias, sd, txVars, gwVars>>

InitConnections(configs, openThrows) ==
    /\ initCalls < MaxInitCalls
    /\ initCalls' = initCalls + 1
    /\ IF NoConfigs(configs)
       THEN UNCHANGED <<connections, live>>
       ELSE /\ connections' =
                  ResetConnections(connections)
                  \o CreateConnections(configs, openThrows, initCalls + 1)
            /\ live' = (live \ SqlSet(connections))
                       \cup SqlSet(CreateConnections(configs, openThrows,
                                                     initCalls + 1))
    /\ last' = [op |-> "initConnections", configs |-> configs,
                openThrows |-> openThrows]
    /\ UNCHANGED <<defaultDbAlias, sd, txVars, gwVars>>

----------------------------------------------------------------------------
(* closeConnections, core.ts:133-158: an async function.  It runs without
   interruption up to each `await connections[alias].end()`, where other
   calls may run before it resumes. *)

SdIdle == [pc |-> "idle", aliases |-> <<>>, i |-> 0, awaited |-> NoSql,
           registered |-> {}, rejected |-> {}, result |-> "none"]

\* core.ts:142-150 from index i on: the first snapshot alias whose property
\* is a handle (so end() is invoked and awaited), 0 when none is left.  For
\* an alias whose property is gone or is an inherited member the call
\* throws a TypeError, which the catch swallows, and the loop goes on.
RECURSIVE NextAwait(_, _, _)
NextAwait(c, aliases, i) ==
    IF i > Len(aliases) THEN 0
    ELSE IF IsHandle(Get(c, aliases[i])) THEN i
    ELSE NextAwait(c, aliases, i + 1)

ClearConnectionsKeeps(c) == c

\* core.ts:152-155: every key present now is deleted.
ClearConnections(c) == <<>>

\* The loop from index i up to its next await, or through the final clear.
CloseLoop(call, i) ==
    LET j == NextAwait(connections, call.aliases, i)
    IN IF j = 0
       THEN /\ connections' = ClearConnections(connections)
            /\ live' = live
            /\ sd' = [call EXCEPT !.pc = "done", !.i = 0, !.awaited = NoSql,
                                  !.result = "resolved"]
       ELSE /\ connections' = connections
            /\ live' = live \ {Get(connections, call.aliases[j])}
            /\ sd' = [call EXCEPT !.pc = "awaiting", !.i = j,
                                  !.awaited = Get(connections, call.aliases[j])]

\* core.ts:133-145: the call itself, up to its first await.  With no keys
\* it returns at once (core.ts:137-140).
CloseConnectionsCall ==
    /\ sd.pc \in {"idle", "done"}
    /\ IF Len(connections) = 0
       THEN /\ sd' = [SdIdle EXCEPT !.pc = "done", !.result = "resolved"]
            /\ UNCHANGED <<connections, live>>
       ELSE CloseLoop([SdIdle EXCEPT !.aliases = Keys(connections),
                                     !.registered = SqlSet(connections)], 1)
    /\ last' = [op |-> "closeConnections"]
    /\ UNCHANGED <<defaultDbAlias, initCalls, txVars, gwVars>>

\* core.ts:145-149: the awaited end() settles; a rejection is caught and
\* logged, and the loop goes on with the next alias.
CloseConnectionsResume(endRejects) ==
    /\ sd.pc = "awaiting"
    /\ LET call == IF endRejects
                   THEN [sd EXCEPT !.rejected = @ \cup {sd.awaited}]
                   ELSE sd
       IN CloseLoop(call, sd.i + 1)
    /\ last' = [op |-> "closeConnections"]
    /\ UNCHANGED <<defaultDbAlias, initCalls, txVars, gwVars>>

----------------------------------------------------------------------------
(* Alias resolution *)

NoError == [kind |-> "none", alias |-> "", listsAvailable |-> FALSE,
            available |-> <<>>]

\* core.ts:166: `Database connection '${alias}' not found`
NotFoundError(alias, c) ==
    [kind |-> "ConnectionNotFound", alias |-> alias,
     listsAvailable |-> FALSE, available |-> <<>>]

\* core.ts:784: `Database connection '${alias}' not found. Available
\* connections: ${Object.keys(connections).join(', ')}`
NotFoundErrorListing(alias, c) ==
    [kind |-> "ConnectionNotFound", alias |-> alias,
     listsAvailable |-> TRUE, available |-> Keys(c)]

\* core.ts:162: dbAlias || DEFAULT_DB_ALIAS.  The fallback is the constant
\* of core.ts:23; serverConfig.defaultDbAlias is not consulted.
EffectiveAlias(dbAlias) ==
    IF Falsy(dbAlias) THEN DEFAULT_DB_ALIAS ELSE dbAlias[1]

\* core.ts:161-170: the handle returned, or the error thrown.  `!sql` is
\* true only for undefined: a handle and an inherited member are truthy.
validateDbAlias(dbAlias, c) ==
    LET alias == EffectiveAlias(dbAlias)
        sql == Get(c, alias)
    IN IF sql = NoSql
       THEN [threw |-> TRUE, sql |-> NoSql, error |-> NotFoundError(alias, c)]
       ELSE [threw |-> FALSE, sql |-> sql, error |-> NoError]

\* core.ts:782-785 (and 815-818): fetchTableSchema / fetchAllTableSchemas
\* read connections[alias] themselves; the error is returned, not thrown.
fetchTableSchemaResolve(alias, c) ==
    LET sql == Get(c, alias)
    IN IF sql = NoSql
       THEN [threw |-> TRUE, sql |-> NoSql,
             error |-> NotFoundErrorListing(alias, c)]
       ELSE [threw |-> FALSE, sql |-> sql, error |-> NoError]

\* A data operation (executeQuery, executeCommand, executeTransaction, the
\* tools, the resources, getTableSchema, listTables) resolves its alias.
ValidateDbAliasCall(dbAlias) ==
    /\ last' = [op |-> "validateDbAlias", dbAlias |-> dbAlias,
                out |-> validateDbAlias(dbAlias, connections)]
    /\ UNCHANGED <<connections, live, defaultDbAlias,
                   initCalls, sd, txVars, gwVars>>

FetchTableSchemaCall(alias) ==
    /\ last' = [op |-> "fetchTableSchema", dbAlias |-> <<alias>>,
                out |-> fetchTableSchemaResolve(alias, connections)]
    /\ UNCHANGED <<connections, live, defaultDbAlias,
                   initCalls, sd, txVars, gwVars>>

----------------------------------------------------------------------------
(* The transaction coordinator: executeTransaction (core.ts:199-249) and
   transaction_tool (core.ts:367-444).  Both are async functions; they
   suspend at `await sql.begin(...)`, whose callback suspends at each
   `await transaction.unsafe(...)`.  The driver runs BEGIN, then the
   callback, then COMMIT when the callback returns and ROLLBACK when it
   throws, and rejects with the error in the latter case. *)

TransactionFns == {"executeTransaction", "transaction_tool"}

\* Messages of the errors the driver raises (error.message may be empty).
DriverMessages == {"", "relation does not exist"}

\* result.count of a statement for which the driver reports no count.
NoCount == -1

DriverCounts == {NoCount} \cup (0 .. MaxRows)

RowsAffectedRaw(count) == count

\* core.ts:220, 403: opResult.count || 0
RowsAffected(count) == IF count = NoCount \/ count = 0 THEN 0 ELSE count

NewTransactionFailureAtZero ==
    [success |-> FALSE, error |-> "", failedOperationIndex |-> 0]

\* core.ts:204-208, 381-385
NewTransactionFailure ==
    [success |-> FALSE, error |-> "", failedOperationIndex |-> -1]

\* core.ts:232-235, 422-425
TransactionSuccess(results) == [success |-> TRUE, results |-> results]

\* A JavaScript value handed to the serializer: data that JSON can
\* represent (booleans, numbers, strings, arrays and plain objects of
\* such), or a value of one of the other kinds.
JsonValue(v) == [kind |-> "json", value |-> v]

\* Kinds of values for which JSON.stringify throws a TypeError (a
\* self-referential structure, a BigInt) or whatever toJSON throws.
ThrowingKinds == {"circular", "bigint", "toJSONThrows"}

\* Kinds for which JSON.stringify returns undefined without throwing.
UndefinedKinds == {"undefined", "function", "symbol"}

\* The string "[]", which is also the text of the empty array.
EmptyArrayText == [json |-> <<>>]

\* The value undefined, which is not a string.
UndefinedText == [undefined |-> TRUE]

\* JSON.stringify(data): the text that carries exactly the data, the value
\* undefined, or a throw.
JSONStringify(data) ==
    IF data.kind \in ThrowingKinds
    THEN [threw |-> TRUE, text |-> UndefinedText]
    ELSE IF data.kind \in UndefinedKinds
    THEN [threw |-> FALSE, text |-> UndefinedText]
    ELSE [threw |-> FALSE, text |-> [json |-> data.value]]

\* utils.ts:92-98: try { return JSON.stringify(data) } catch { return '[]' }
safeJsonStringify(data) ==
    LET r == JSONStringify(data)
    IN IF r.threw THEN EmptyArrayText ELSE r.text

RecordFailureWithoutIndex(fn, failure, i, message) ==
    [failure EXCEPT !.error = message]

\* core.ts:222-226, 405-412: the inner catch records the failure.
RecordFailure(fn, failure, i, message) ==
    [failure EXCEPT
        !.error = IF fn = "executeTransaction" THEN message
                  ELSE "Error executing operation " \o ToString(i)
                       \o ": " \o message,
        !.failedOperationIndex = i]

\* How the call's promise settles: with a returned string, or rejected.
Pending == [settled |-> "pending", text |-> [json |-> <<>>]]
Returns(text) == [settled |-> "resolved", text |-> text]
Rejects == [settled |-> "rejected", text |-> [json |-> <<>>]]

\* core.ts:245-246, 433-434: the text of the generic failure.
GenericError(fn, message) ==
    (IF fn = "executeTransaction" THEN "Transaction failed: "
     ELSE "Transaction error: ") \o message

OuterCatchRethrows(fn, failure, message) == Rejects

\* core.ts:238-248, 428-442: the outer catch returns the recorded failure,
\* or a generic one when no operation recorded an error text.
OuterCatch(fn, failure, message) ==
    IF failure.error # ""
    THEN Returns(safeJsonStringify(JsonValue(failure)))
    ELSE Returns(safeJsonStringify(JsonValue(
            [failure EXCEPT !.error = GenericError(fn, message)])))

TxIdle ==
    [pc |-> "idle", fn |-> "none", n |-> 0, dbAlias |-> Omitted,
     reportProgress |-> "present", sql |-> NoSql, i |-> 0, results |-> <<>>,
     transactionFailure |-> NewTransactionFailure,
     scope |-> "none", pending |-> {}, issued |-> <<>>, driver |-> <<>>,
     thrown |-> "", outcome |-> Pending]

\* The write statement i of the current call makes when it succeeds.
Write(i) == <<txCalls, i>>

\* The callback rejected (or BEGIN / COMMIT failed): the driver has rolled
\* the scope back and sql.begin rejects into the outer catch.
Abort(t, message, scope) ==
    /\ tx' = [t EXCEPT !.pc = "done", !.scope = scope, !.pending = {},
                       !.thrown = message,
                       !.outcome = OuterCatch(t.fn, t.transactionFailure,
                                              message)]
    /\ db' = db

\* What the reportProgress of the tool's context does when called: it
\* returns a promise that resolves ("present"), never settles ("blocks") or
\* rejects ("rejects"), it throws ("throws"), or the context has none
\* ("absent").
ProgressKinds == {"present", "blocks", "rejects", "throws", "absent"}

\* core.ts:392-395, 416-419: reportProgress is called and not awaited, and
\* not inside the inner try: the promise it returns is dropped, whereas a
\* throw, or the TypeError of calling undefined, leaves the callback.
ProgressThrows(t) ==
    t.fn = "transaction_tool" /\ t.reportProgress \in {"throws", "absent"}

\* The message of the error that leaves the callback in that case.
ProgressError(t) ==
    IF t.reportProgress = "absent" THEN "reportProgress is not a function"
    ELSE "progress report failed"

\* Alternative: the callback issues all remaining statements together
\* and awaits them afterwards.
RunCallbackAllAtOnce(t) ==
    IF ProgressThrows(t)
    THEN Abort(t, ProgressError(t), "rolledBack")
    ELSE IF t.i < t.n
    THEN /\ tx' = [t EXCEPT !.pc = "op",
                            !.issued = @ \o [k \in 1 .. t.n - t.i |->
                                                t.i + k - 1]]
         /\ db' = db
    ELSE /\ tx' = [t EXCEPT !.pc = "commit"]
         /\ db' = db

\* core.ts:214-217, 389-400, 416-420: the callback from loop index t.i up
\* to its next await, or to its return.
RunCallback(t) ==
    IF ProgressThrows(t)
    THEN Abort(t, ProgressError(t), "rolledBack")
    ELSE IF t.i < t.n
    THEN /\ tx' = [t EXCEPT !.pc = "op", !.issued = Append(@, t.i)]
         /\ db' = db
    ELSE /\ tx' = [t EXCEPT !.pc = "commit"]
         /\ db' = db

\* core.ts:199-213, 371-388: resolution, then the call of sql.begin.  A
\* failed resolution rejects the call; a resolved value that is not a
\* handle makes sql.begin throw a TypeError inside the try.
TransactionCall(fn, n, dbAlias, reportProgress) ==
    /\ tx.pc \in {"idle", "done"}
    /\ txCalls < MaxTxCalls
    /\ fn = "executeTransaction" => reportProgress = "present"
    /\ txCalls' = txCalls + 1
    /\ db' = db
    /\ LET r == validateDbAlias(dbAlias, connections)
           t == [TxIdle EXCEPT !.fn = fn, !.n = n, !.sql = r.sql,
                               !.dbAlias = dbAlias,
                               !.reportProgress = reportProgress]
       IN IF r.threw
          THEN tx' = [t EXCEPT !.pc = "done", !.outcome = Rejects]
          ELSE IF ~IsHandle(r.sql)
          THEN tx' = [t EXCEPT !.pc = "done",
                         !.thrown = "sql.begin is not a function",
                         !.outcome = OuterCatch(fn, t.transactionFailure,
                                                "sql.begin is not a function")]
          ELSE tx' = [t EXCEPT !.pc = "begin"]
    /\ UNCHANGED <<regVars, gwVars>>

\* The driver opens the scope (BEGIN on a reserved connection) and starts
\* the callback, or fails to and rejects.
BeginSettles(opened, message) ==
    /\ tx.pc = "begin"
    /\ IF opened
       THEN RunCallback([tx EXCEPT !.scope = "open"])
       ELSE Abort(tx, message, "none")
    /\ UNCHANGED <<txCalls, regVars, gwVars>>

\* Alternative: the inner catch records the failure and the loop goes on
\* with the next statement.
OperationSettlesGoesOn(ok, count, message) ==
    /\ tx.pc = "op"
    /\ LET t == [tx EXCEPT !.driver = Append(@, [ok |-> ok, count |-> count])]
       IN IF ok
          THEN RunCallback(
                 [t EXCEPT !.results =
                              Append(@, [operation |-> t.i,
                                         rowsAffected |-> RowsAffected(count)]),
                           !.pending = @ \cup {Write(t.i)},
                           !.i = t.i + 1])
          ELSE RunCallback(
                 [t EXCEPT !.transactionFailure =
                              RecordFailure(t.fn, @, t.i, message),
                           !.i = t.i + 1])
    /\ UNCHANGED <<txCalls, regVars, gwVars>>

\* core.ts:216-227, 399-413: the awaited statement settles.
OperationSettles(ok, count, message) ==
    /\ tx.pc = "op"
    /\ LET t == [tx EXCEPT !.driver = Append(@, [ok |-> ok, count |-> count])]
       IN IF ok
          THEN RunCallback(
                 [t EXCEPT !.results =
                              Append(@, [operation |-> t.i,
                                         rowsAffected |-> RowsAffected(count)]),
                           !.pending = @ \cup {Write(t.i)},
                           !.i = t.i + 1])
          ELSE Abort([t EXCEPT !.transactionFailure =
                                  RecordFailure(t.fn, @, t.i, message)],
                     message, "rolledBack")
    /\ UNCHANGED <<txCalls, regVars, gwVars>>

\* Alternative: the success outcome is built when the callback returns,
\* whatever the COMMIT does afterwards.
CommitSettlesReportsSuccess(ok, message) ==
    /\ tx.pc = "commit"
    /\ db' = (IF ok THEN db \cup tx.pending ELSE db)
    /\ tx' = [tx EXCEPT !.pc = "done",
                        !.scope = IF ok THEN "committed" ELSE "rolledBack",
                        !.pending = {},
                        !.thrown = IF ok THEN "" ELSE message,
                        !.outcome = Returns(safeJsonStringify(JsonValue(
                                       TransactionSuccess(tx.results))))]
    /\ UNCHANGED <<txCalls, regVars, gwVars>>

\* The callback returned: the driver commits; sql.begin resolves, or the
\* COMMIT fails and it rejects.
CommitSettles(ok, message) ==
    /\ tx.pc = "commit"
    /\ IF ok
       THEN /\ db' = db \cup tx.pending
            /\ tx' = [tx EXCEPT !.pc = "done", !.scope = "committed",
                                !.pending = {},
                                !.outcome = Returns(safeJsonStringify(JsonValue(
                                               TransactionSuccess(tx.results))))]
       ELSE Abort(tx, message, "rolledBack")
    /\ UNCHANGED <<txCalls, regVars, gwVars>>

----------------------------------------------------------------------------
(* The gateway: the server and its authenticate hook (core.ts:569-596), the
   statement executor (executeQuery, executeCommand, query_tool,
   execute_tool), the schema introspector (utils.ts:100-210 and the tools
   and resources over it) and the serializer.  Each call below has a single
   await, or awaits answers that do not depend on other calls, so a call
   with the driver's answers as inputs is one step. *)

\* An absent string (undefined): an unset MCP_API_KEY, a missing header.
NoKey == <<>>

\* serverConfig.apiKey (constants.ts:24-26, 77-82): unset, empty, or set.
ApiKeys == {NoKey, <<"">>, <<"secret">>}

\* request.headers['x-api-key'] of a connecting client.
PresentedKeys == {NoKey, <<"secret">>, <<"wrong">>}

\* options.transport (core.ts:700-724): 'http' and 'sse' start a network
\* listener, anything else stdio.
Transports == {"stdio", "sse", "http"}
IsNetwork(transport) == transport \in {"sse", "http"}

\* JavaScript truthiness of an optional string.
Truthy(k) == k # NoKey /\ k # <<"">>

NoServer ==
    [created |-> FALSE, enableAuth |-> FALSE, apiKey |-> NoKey,
     authenticate |-> FALSE, transport |-> "stdio"]
NoSession == [state |-> "none", key |-> NoKey]
NoRequest == [op |-> "none"]

\* core.ts:580-590: the hook exists only when enableAuth and apiKey are
\* both truthy; otherwise authenticate is undefined.
HasAuthenticate(enableAuth, apiKey) == enableAuth /\ Truthy(apiKey)

\* core.ts:582-586: the hook throws 'Invalid API Key'.
AuthenticateThrows(presented, configured) ==
    ~Truthy(presented) \/ presented # configured

\* core.ts:569-596, 700-724: the server is created and started.
CreateMcpServer(enableAuth, apiKey, transport) ==
    /\ ~srv.created
    /\ srv' = [created |-> TRUE, enableAuth |-> enableAuth,
               apiKey |-> apiKey,
               authenticate |-> HasAuthenticate(enableAuth, apiKey),
               transport |-> transport]
    /\ UNCHANGED <<session, catalog, rq, regVars, txVars>>

\* A client connects.  On a network transport the framework calls the
\* authenticate hook, when there is one, and refuses the session when it
\* throws; on stdio no hook is called.
Connect(presented) ==
    /\ srv.created
    /\ IsNetwork(srv.transport) \/ presented = NoKey
    /\ session' =
         [state |-> IF /\ IsNetwork(srv.transport)
                       /\ srv.authenticate
                       /\ AuthenticateThrows(presented, srv.apiKey)
                    THEN "rejected" ELSE "accepted",
          key |-> presented]
    /\ UNCHANGED <<srv, catalog, rq, regVars, txVars>>

\* The functions below that are tools or resources of the server: their
\* handlers run for requests of an accepted session only.
GatewayHandlers ==
    {"query_tool", "execute_tool", "schema_tool", "all_schemas_tool",
     "Table Schema", "All Tables Schemas"}

MayRun(fn) == fn \in GatewayHandlers => session.state = "accepted"

\* A call that throws: the class of the error and its message, as the
\* sequence of the parts of the template literal that built it.
RejectsWith(cls, message) ==
    [settled |-> "rejected", cls |-> cls, message |-> message]

\* error instanceof Error ? error.message : String(error)
ErrorMessage(out) == out.message

\* core.ts:166: the message of validateDbAlias's error.
NotFoundMessage(error) == <<"Database connection '", error.alias, "' not found">>

\* The driver's answer to sql.unsafe(statement, params): a result with its
\* rows and count, or an error with its message.
ExecAnswers ==
    [ok : {TRUE}, count : DriverCounts, message : {""}]
    \cup [ok : {FALSE}, count : {NoCount}, message : DriverMessages]

\* The rows of a result whose count is c.
Rows(c) == [j \in 1 .. (IF c = NoCount THEN 0 ELSE c) |-> [id |-> j]]

\* `${result.count}`: the driver's count is null when it reports none.
TemplateCount(count) == IF count = NoCount THEN "null" ELSE ToString(count)

\* A plain string a function returns (not JSON text).
Str(parts) == [str |-> parts]

\* The TypeError of calling a method on a resolved value that is not a
\* connection (an inherited Object.prototype member).
NotAFunction(method) == "sql." \o method \o " is not a function"

\* What the try body of the four functions does with the answer:
\* [threw, message] and the result.
Unsafe(sql, answer) ==
    IF ~IsHandle(sql) THEN [threw |-> TRUE, message |-> NotAFunction("unsafe")]
    ELSE IF answer.ok THEN [threw |-> FALSE, message |-> ""]
    ELSE [threw |-> TRUE, message |-> answer.message]

\* core.ts:173-183
executeQuery(dbAlias, answer, c) ==
    LET r == validateDbAlias(dbAlias, c)
        u == Unsafe(r.sql, answer)
    IN IF r.threw THEN RejectsWith("Error", NotFoundMessage(r.error))
       ELSE IF u.threw
       THEN RejectsWith("Error", <<"Query execution failed: ", u.message>>)
       ELSE Returns(safeJsonStringify(JsonValue(Rows(answer.count))))

\* core.ts:186-196
executeCommand(dbAlias, answer, c) ==
    LET r == validateDbAlias(dbAlias, c)
        u == Unsafe(r.sql, answer)
    IN IF r.threw THEN RejectsWith("Error", NotFoundMessage(r.error))
       ELSE IF u.threw
       THEN RejectsWith("Error", <<"Command execution failed: ", u.message>>)
       ELSE Returns(Str(<<"Rows affected: ", TemplateCount(answer.count)>>))

\* core.ts:273-277, 301-305: the outer catch of query_tool and
\* execute_tool, which encloses the inner try as well: whatever was thrown
\* below it is thrown again as a database connection error.
ToolOuterCatch(out) ==
    IF out.settled = "rejected"
    THEN RejectsWith("UserError",
                     <<"Database connection error: ">> \o ErrorMessage(out))
    ELSE out

\* core.ts:257-278
query_tool(dbAlias, answer, c) ==
    LET r == validateDbAlias(dbAlias, c)
        u == Unsafe(r.sql, answer)
    IN ToolOuterCatch(
         IF r.threw THEN RejectsWith("Error", NotFoundMessage(r.error))
         ELSE IF u.threw
         THEN RejectsWith("UserError", <<"Query error: ", u.message>>)
         ELSE Returns(safeJsonStringify(JsonValue(Rows(answer.count)))))

\* core.ts:285-306
execute_tool(dbAlias, answer, c) ==
    LET r == validateDbAlias(dbAlias, c)
        u == Unsafe(r.sql, answer)
    IN ToolOuterCatch(
         IF r.threw THEN RejectsWith("Error", NotFoundMessage(r.error))
         ELSE IF u.threw
         THEN RejectsWith("UserError", <<"Execution error: ", u.message>>)
         ELSE Returns(Str(<<"Rows affected: ",
                            ToString(RowsAffected(answer.count))>>)))

StatementFns == {"executeQuery", "executeCommand", "query_tool", "execute_tool"}

\* One call of a statement function, with the driver's answer.
StatementCall(fn, dbAlias, answer) ==
    /\ MayRun(fn)
    /\ rq' = [op |-> fn, dbAlias |-> dbAlias, answer |-> answer,
              sql |-> validateDbAlias(dbAlias, connections).sql,
              out |-> CASE fn = "executeQuery" ->
                             executeQuery(dbAlias, answer, connections)
                        [] fn = "executeCommand" ->
                             executeCommand(dbAlias, answer, connections)
                        [] fn = "query_tool" ->
                             query_tool(dbAlias, answer, connections)
                        [] fn = "execute_tool" ->
                             execute_tool(dbAlias, answer, connections)]
    /\ UNCHANGED <<srv, session, catalog, regVars, txVars>>

\* Table names a caller may pass and the catalog may hold, in the order
\* ORDER BY table_name lists them.
TableOrder == <<"__proto__", "connections", "users">>
TableNames == Range(TableOrder)

\* catalog[t] is the number of columns information_schema.columns shows for
\* table t of schema public, or Absent when information_schema.tables has
\* no such table.
Absent == -1
Catalogs == [TableNames -> {Absent} \cup (0 .. MaxColumns)]
NoCatalog == [t \in TableNames |-> Absent]

\* The rows of the columns query, ordered by ordinal_position.
Columns(tableName, cat) ==
    [j \in 1 .. cat[tableName] |->
        [table_name |-> tableName, ordinal_position |-> j]]

\* Messages of the errors the driver raises for a catalog query.
SchemaDriverMessages ==
    {"", "permission denied for table", "connection terminated",
     "statement timeout"}

\* Which catalog query of a getTableSchema call the driver fails, if any.
NoFault == [at |-> "none", message |-> ""]
SchemaFaults ==
    {NoFault} \cup [at : {"exists", "columns"}, message : SchemaDriverMessages]

\* String.prototype.includes over a message given by its parts: of the
\* texts that occur in messages here, these are the ones that contain the
\* needle (no template text of utils.ts:112-169 contains any of them).
PartsIncluding(needle) ==
    CASE needle = "connection" -> {"connections", "connection terminated"}
      [] needle = "permission denied" -> {"permission denied for table"}
      [] needle = "access denied" -> {}

Includes(message, needle) ==
    \E i \in DOMAIN message : message[i] \in PartsIncluding(needle)

\* !errorMessage || errorMessage.trim() === ''
IsBlank(message) == \A i \in DOMAIN message : message[i] = ""

\* A call that returns a value that is not a string.
Resolves(value) == [settled |-> "resolved", value |-> value]

\* utils.ts:148-167: the catch of getTableSchema rethrows under a prefix
\* chosen by searching the message text.
SchemaCatch(tableName, errorMessage) ==
    IF IsBlank(errorMessage)
    THEN RejectsWith("Error",
           <<"Failed to retrieve schema for '", tableName,
             "': Database connection error or permission issue">>)
    ELSE IF \/ Includes(errorMessage, "permission denied")
            \/ Includes(errorMessage, "access denied")
    THEN RejectsWith("Error",
           <<"Permission denied accessing table '", tableName, "': ">>
           \o errorMessage)
    ELSE IF Includes(errorMessage, "connection")
    THEN RejectsWith("Error",
           <<"Database connection error while retrieving schema for '",
             tableName, "': ">> \o errorMessage)
    ELSE RejectsWith("Error",
           <<"Failed to retrieve schema for '", tableName, "': ">>
           \o errorMessage)

\* utils.ts:112-169
getTableSchema(tableName, fault, cat) ==
    IF fault.at = "exists"
    THEN SchemaCatch(tableName, <<fault.message>>)
    ELSE IF cat[tableName] = Absent
    THEN SchemaCatch(tableName,
           <<"Table '", tableName, "' does not exist in the database.">>)
    ELSE IF fault.at = "columns"
    THEN SchemaCatch(tableName, <<fault.message>>)
    ELSE IF cat[tableName] = 0
    THEN SchemaCatch(tableName,
           <<"No columns found for table '", tableName, "'.">>)
    ELSE Resolves(Columns(tableName, cat))

\* core.ts:313-334: schema_tool.  The alias is resolved outside the try.
schema_tool(tableName, dbAlias, fault, cat, c) ==
    LET r == validateDbAlias(dbAlias, c)
        schema == getTableSchema(tableName, fault, cat)
    IN IF r.threw THEN RejectsWith("Error", NotFoundMessage(r.error))
       ELSE IF schema.settled = "rejected"
       THEN RejectsWith("UserError",
              <<"Schema retrieval error: ">> \o ErrorMessage(schema))
       ELSE Returns(safeJsonStringify(JsonValue(schema.value)))

\* core.ts:486-502: the Table Schema resource.  Everything is inside the
\* try, whose catch rethrows under 'Failed to get schema: '.
TableSchemaResource(tableName, dbAlias, fault, cat, c) ==
    LET r == validateDbAlias(dbAlias, c)
        schema == getTableSchema(tableName, fault, cat)
        thrown == IF r.threw THEN NotFoundMessage(r.error)
                  ELSE IF schema.settled = "rejected"
                  THEN ErrorMessage(schema)
                  ELSE IF Len(schema.value) = 0
                  THEN <<"Table '", tableName, "' not found or has no columns">>
                  ELSE <<>>
    IN IF thrown # <<>>
       THEN RejectsWith("Error", <<"Failed to get schema: ">> \o thrown)
       ELSE Returns(safeJsonStringify(JsonValue(schema.value)))

TableSchemaFns == {"getTableSchema", "schema_tool", "Table Schema"}

GwAliasArgs == {<<"main">>, <<"reporting">>}

\* One call of a per-table schema function, with the driver's fault.
TableSchemaCall(fn, tableName, dbAlias, fault) ==
    /\ MayRun(fn)
    /\ fn = "getTableSchema" => dbAlias = <<"main">>
    /\ fault.at = "columns" => catalog[tableName] # Absent
    /\ rq' = [op |-> fn, tableName |-> tableName, dbAlias |-> dbAlias,
              fault |-> fault,
              out |-> CASE fn = "getTableSchema" ->
                             getTableSchema(tableName, fault, catalog)
                        [] fn = "schema_tool" ->
                             schema_tool(tableName, dbAlias, fault, catalog,
                                         connections)
                        [] fn = "Table Schema" ->
                             TableSchemaResource(tableName, dbAlias, fault,
                                                 catalog, connections)]
    /\ UNCHANGED <<srv, session, catalog, regVars, txVars>>

\* utils.ts:100-110: the base tables of schema public, ordered by name.
listTables(cat) == SelectSeq(TableOrder, LAMBDA t : cat[t] # Absent)

\* schemas[tableName] = value on the object literal {} (utils.ts:179-187):
\* an own property is added, except for the key '__proto__', whose
\* assignment goes to the setter inherited from Object.prototype and adds
\* no own property.  (The listed names are distinct.)
SetProperty(schemas, key, value) ==
    IF key = "__proto__" THEN schemas
    ELSE Append(schemas, [name |-> key, schema |-> value])

\* utils.ts:181-189: the loop over the listed tables from index i on.
RECURSIVE SchemaLoop(_, _, _, _, _)
SchemaLoop(tables, i, failing, message, cat) ==
    IF i > Len(tables) THEN <<>>
    ELSE LET fault == IF tables[i] \in failing
                      THEN [at |-> "columns", message |-> message]
                      ELSE NoFault
             r == getTableSchema(tables[i], fault, cat)
             rest == SchemaLoop(tables, i + 1, failing, message, cat)
         IN <<[name |-> tables[i],
               schema |-> IF r.settled = "rejected" THEN <<>> ELSE r.value]>>
            \o rest

RECURSIVE Assign(_, _, _)
Assign(schemas, entries, i) ==
    IF i > Len(entries) THEN schemas
    ELSE Assign(SetProperty(schemas, entries[i].name, entries[i].schema),
                entries, i + 1)

\* utils.ts:171-210: listFails is the driver failing the listTables query.
getAllTableSchemas(listFails, failing, message, cat) ==
    IF listFails
    THEN IF IsBlank(<<message>>)
         THEN RejectsWith("Error",
                <<"Failed to retrieve all table schemas: Database connection error or permission issue">>)
         ELSE IF \/ Includes(<<message>>, "permission denied")
                 \/ Includes(<<message>>, "access denied")
         THEN RejectsWith("Error",
                <<"Permission denied accessing tables: ", message>>)
         ELSE IF Includes(<<message>>, "connection")
         THEN RejectsWith("Error",
                <<"Database connection error while retrieving schemas: ",
                  message>>)
         ELSE RejectsWith("Error",
                <<"Failed to retrieve all table schemas: ", message>>)
    ELSE Resolves(Assign(<<>>,
                         SchemaLoop(listTables(cat), 1, failing, message, cat),
                         1))

\* core.ts:341-364: all_schemas_tool, which lists the tables itself before
\* it calls getAllTableSchemas, so that a failing list query reaches its
\* catch unwrapped; core.ts:515-523: the All Tables Schemas resource.
AllSchemasHandler(fn, dbAlias, listFails, failing, message, cat, c) ==
    LET r == validateDbAlias(dbAlias, c)
        all == getAllTableSchemas(listFails, failing, message, cat)
    IN IF fn = "all_schemas_tool"
       THEN IF r.threw THEN RejectsWith("Error", NotFoundMessage(r.error))
            ELSE IF listFails
            THEN RejectsWith("UserError",
                   <<"Schema retrieval error: ", message>>)
            ELSE IF all.settled = "rejected"
            THEN RejectsWith("UserError",
                   <<"Schema retrieval error: ">> \o ErrorMessage(all))
            ELSE Returns(safeJsonStringify(JsonValue(all.value)))
       ELSE IF r.threw
            THEN RejectsWith("Error", <<"Failed to get all schemas: ">>
                                      \o NotFoundMessage(r.error))
            ELSE IF all.settled = "rejected"
            THEN RejectsWith("Error", <<"Failed to get all schemas: ">>
                                      \o ErrorMessage(all))
            ELSE Returns(safeJsonStringify(JsonValue(all.value)))

AllSchemasFns == {"getAllTableSchemas", "all_schemas_tool", "All Tables Schemas"}

\* One call of an all-schemas function: `failing` are the listed tables
\* whose columns query the driver fails, with `message`.
AllSchemasCall(fn, dbAlias, listFails, failing, message) ==
    /\ MayRun(fn)
    /\ fn = "getAllTableSchemas" => dbAlias = <<"main">>
    /\ failing \subseteq Range(listTables(catalog))
    /\ listFails => failing = {}
    /\ (~listFails /\ failing = {}) => message = ""
    /\ rq' = [op |-> fn, dbAlias |-> dbAlias, listFails |-> listFails,
              failing |-> failing, message |-> message,
              out |-> IF fn = "getAllTableSchemas"
                      THEN getAllTableSchemas(listFails, failing, message,
                                              catalog)
                      ELSE AllSchemasHandler(fn, dbAlias, listFails, failing,
                                             message, catalog, connections)]
    /\ UNCHANGED <<srv, session, catalog, regVars, txVars>>

\* Values a caller may hand to the serializer.
SerializerInputs ==
    {JsonValue(v) : v \in {<<>>, <<[id |-> 1]>>}}
    \cup {[kind |-> k, value |-> <<>>] : k \in ThrowingKinds \cup UndefinedKinds}

\* One call of safeJsonStringify.
SerializeCall(data) ==
    /\ rq' = [op |-> "safeJsonStringify", data |-> data,
              out |-> Resolves(safeJsonStringify(data))]
    /\ UNCHANGED <<srv, session, catalog, regVars, txVars>>

----------------------------------------------------------------------------
(* Configuration: createDbConfigFromEnv (constants.ts:28-67) and the
   options with which a connection is opened for a config: by
   initConnections (core.ts:69-87), which is what fills the registry, and
   by createPostgresClient (utils.ts:4-63). *)

\* An unset environment variable, an absent URL component or field.
Missing == <<>>

\* Values of DB_<ALIAS>_SSL and of the URL's sslmode parameter.
SslModes == {"", "disable", "require", "verify-ca", "verify-full", "prefer"}

\* parseInt(text, 10) of the port texts that occur here.
ParseInt(text) == IF text = "6543" THEN 6543 ELSE 5432

\* a || b for optional strings: b when a is unset or empty.
OrElse(opt, default) == IF opt = Missing \/ opt = <<"">> THEN default ELSE opt[1]

\* The discrete variables DB_<ALIAS>_HOST, _PORT, _NAME, _USER, _PASSWORD
\* and _SSL, each unset or set.
DiscreteEnvs ==
    [host : {Missing, <<"db.example">>}, port : {Missing, <<"6543">>},
     name : {Missing, <<"app">>}, user : {Missing, <<"alice">>},
     password : {Missing, <<"s3cret">>},
     ssl : {Missing} \cup {<<m>> : m \in SslModes}]

NoDiscrete ==
    [host |-> Missing, port |-> Missing, name |-> Missing, user |-> Missing,
     password |-> Missing, ssl |-> Missing]

\* DB_<ALIAS>_URL: unset, not parseable by new URL(), or parsed into its
\* components, each of which is the empty string when the URL lacks it
\* (database is pathname.substring(1)); sslmode is a query parameter.
NoUrlParts ==
    [hostname |-> "", port |-> "", database |-> "", username |-> "",
     password |-> "", sslmode |-> Missing]
UrlParts ==
    [hostname : {"", "db.example"}, port : {"", "6543"},
     database : {"", "app"}, username : {"", "alice"},
     password : {"", "s3cret"}, sslmode : {Missing, <<"require">>}]
Urls ==
    {[form |-> f, parts |-> NoUrlParts] : f \in {"unset", "invalid"}}
    \cup {[form |-> "valid", parts |-> q] : q \in UrlParts}

\* constants.ts:47-54: the config built from a parsed URL.
ConfigFromUrl(parts) ==
    [host |-> parts.hostname,
     port |-> ParseInt(OrElse(<<parts.port>>, "5432")),
     database |-> parts.database,
     user |-> OrElse(<<parts.username>>, ""),
     password |-> OrElse(<<parts.password>>, ""),
     ssl |-> IF parts.sslmode = Missing \/ parts.sslmode = <<"">>
             THEN Missing ELSE parts.sslmode]

\* constants.ts:61-67: the config built from the discrete variables.
ConfigFromFields(env) ==
    [host |-> OrElse(env.host, "localhost"),
     port |-> ParseInt(OrElse(env.port, "5432")),
     database |-> OrElse(env.name, "postgres"),
     user |-> OrElse(env.user, "postgres"),
     password |-> OrElse(env.password, ""),
     ssl |-> env.ssl]

\* constants.ts:28-67: a URL that is set and parses wins; one that does not
\* parse falls back to the discrete variables.
createDbConfigFromEnv(url, env) ==
    IF url.form = "valid" THEN ConfigFromUrl(url.parts)
    ELSE ConfigFromFields(env)

\* The ssl option handed to postgres().
SslOptions == {"undefined", "false", "true", "rejectUnauthorized: false",
               "rejectUnauthorized: true"}

\* core.ts:75: config.ssl === 'disable' ? false : config.ssl ? true : undefined
RegistrySslOption(ssl) ==
    IF ssl = <<"disable">> THEN "false"
    ELSE IF ssl # Missing /\ ssl # <<"">> THEN "true"
    ELSE "undefined"

\* utils.ts:10-15: no ssl key at all when config.ssl is falsy.
ClientSslOption(ssl) ==
    IF ssl = Missing \/ ssl = <<"">> THEN "undefined"
    ELSE IF ssl = <<"disable">> THEN "false"
    ELSE IF ssl = <<"require">> THEN "rejectUnauthorized: false"
    ELSE IF ssl \in {<<"verify-ca">>, <<"verify-full">>}
    THEN "rejectUnauthorized: true"
    ELSE "rejectUnauthorized: false"

\* What the driver does with the option: no TLS without it or with false,
\* TLS with the given rejectUnauthorized for an object, and for true TLS
\* with the platform's default options, which verify the certificate.
DriverTls(option) ==
    IF option \in {"undefined", "false"} THEN "none"
    ELSE IF option = "rejectUnauthorized: false" THEN "unverified"
    ELSE "verified"

\* core.ts:56-129: the registry opens the connection of one entry; every
\* failure inside is caught, and postgres() itself does not connect.
OpenByRegistry(config) ==
    [threw |-> FALSE, option |-> RegistrySslOption(config.ssl),
     tls |-> DriverTls(RegistrySslOption(config.ssl))]

\* utils.ts:4-63: createPostgresClient, which refuses an empty host or
\* database.
createPostgresClient(config) ==
    IF config.host = "" \/ config.database = ""
    THEN [threw |-> TRUE, option |-> "undefined", tls |-> "none"]
    ELSE [threw |-> FALSE, option |-> ClientSslOption(config.ssl),
          tls |-> DriverTls(ClientSslOption(config.ssl))]

\* loadDatabaseConnections builds the config of one alias from the
\* environment (constants.ts:69-75).
CreateDbConfigFromEnvCall(url, env) ==
    /\ rq.op = "none"
    /\ url.form = "valid" => env = NoDiscrete
    /\ rq' = [op |-> "createDbConfigFromEnv", url |-> url, env |-> env,
              out |-> createDbConfigFromEnv(url, env)]
    /\ UNCHANGED <<srv, session, catalog, regVars, txVars>>

OpenFns == {"initConnections", "createPostgresClient"}

\* A connection is opened for the config just built.
OpenConnectionCall(fn) ==
    /\ rq.op = "createDbConfigFromEnv"
    /\ rq' = [op |-> fn, url |-> rq.url, env |-> rq.env, config |-> rq.out,
              out |-> IF fn = "initConnections" THEN OpenByRegistry(rq.out)
                      ELSE createPostgresClient(rq.out)]
    /\ UNCHANGED <<srv, session, catalog, regVars, txVars>>

----------------------------------------------------------------------------
(* The registry specification *)

\* core.ts:26: the map starts empty; the configured default alias is
\* DEFAULT_DB_ALIAS from the environment or 'main' (constants.ts:15-17).
Init ==
    /\ connections = <<>>
    /\ live = {}
    /\ defaultDbAlias \in {"main", "reporting"}
    /\ initCalls = 0
    /\ sd = SdIdle
    /\ last = [op |-> "none"]
    /\ db = {}
    /\ tx = TxIdle
    /\ txCalls = 0
    /\ srv = NoServer
    /\ session = NoSession
    /\ catalog = NoCatalog
    /\ rq = NoRequest

Next ==
    \/ \E configs \in ConfigMappings :
         \E openThrows \in SUBSET {configs[i] : i \in DOMAIN configs} :
            InitConnections(configs, openThrows)
    \/ CloseConnectionsCall
    \/ \E endRejects \in BOOLEAN : CloseConnectionsResume(endRejects)
    \/ \E dbAlias \in DbAliasArgs : ValidateDbAliasCall(dbAlias)
    \/ \E alias \in LookupNames : FetchTableSchemaCall(alias)

Spec == Init /\ [][Next]_vars

----------------------------------------------------------------------------
(* The transaction specification: calls made one after another against the
   registry that initConnections leaves for the mapping {main: ...}, or
   for the mapping {'': ...} that DB_ALIASES="," yields. *)

TxConfigMappings == {<<"main">>, <<"">>}

InitTx ==
    /\ \E configs \in TxConfigMappings :
          /\ connections = CreateConnections(configs, {}, 1)
          /\ last = [op |-> "initConnections", configs |-> configs,
                     openThrows |-> {}]
    /\ live = SqlSet(connections)
    /\ defaultDbAlias = "main"
    /\ initCalls = 1
    /\ sd = SdIdle
    /\ db = {}
    /\ tx = TxIdle
    /\ txCalls = 0
    /\ srv = NoServer
    /\ session = NoSession
    /\ catalog = NoCatalog
    /\ rq = NoRequest

TxAliasArgs ==
    {Omitted, <<"main">>, <<"">>, <<"reporting">>, <<"constructor">>}

NextTx ==
    \/ \E fn \in TransactionFns, n \in 0 .. MaxOps, dbAlias \in TxAliasArgs,
          reportProgress \in ProgressKinds :
            TransactionCall(fn, n, dbAlias, reportProgress)
    \/ \E opened \in BOOLEAN, message \in DriverMessages :
            BeginSettles(opened, message)
    \/ \E ok \in BOOLEAN, count \in DriverCounts, message \in DriverMessages :
            OperationSettles(ok, count, message)
    \/ \E ok \in BOOLEAN, message \in DriverMessages :
            CommitSettles(ok, message)

SpecTx == InitTx /\ [][NextTx]_vars

----------------------------------------------------------------------------
(* The gateway specification: the functions and the handlers of a stdio
   server with its session, over the registry that
   initConnections({main: ...}) leaves and a database with some catalog. *)

StdioServer ==
    [created |-> TRUE, enableAuth |-> FALSE, apiKey |-> NoKey,
     authenticate |-> HasAuthenticate(FALSE, NoKey), transport |-> "stdio"]

InitGw ==
    /\ connections = CreateConnections(<<"main">>, {}, 1)
    /\ last = [op |-> "initConnections", configs |-> <<"main">>,
               openThrows |-> {}]
    /\ live = SqlSet(connections)
    /\ defaultDbAlias = "main"
    /\ initCalls = 1
    /\ sd = SdIdle
    /\ db = {}
    /\ tx = TxIdle
    /\ txCalls = 0
    /\ srv = StdioServer
    /\ session = [state |-> "accepted", key |-> NoKey]
    /\ catalog \in Catalogs
    /\ rq = NoRequest

NextGw ==
    \/ \E fn \in StatementFns, dbAlias \in TxAliasArgs, answer \in ExecAnswers :
          StatementCall(fn, dbAlias, answer)
    \/ \E fn \in TableSchemaFns, tableName \in TableNames,
          dbAlias \in GwAliasArgs, fault \in SchemaFaults :
          TableSchemaCall(fn, tableName, dbAlias, fault)
    \/ \E fn \in AllSchemasFns, dbAlias \in GwAliasArgs, listFails \in BOOLEAN,
          failing \in SUBSET TableNames, message \in SchemaDriverMessages :
          AllSchemasCall(fn, dbAlias, listFails, failing, message)
    \/ \E data \in SerializerInputs : SerializeCall(data)

SpecGw == InitGw /\ [][NextGw]_vars

----------------------------------------------------------------------------
(* The authentication specification: servers of every configuration and
   transport, the clients that connect to them and the requests the
   handlers then serve, over a database with the one table users. *)

UsersCatalog == [NoCatalog EXCEPT !["users"] = 1]

InitAuth ==
    /\ connections = CreateConnections(<<"main">>, {}, 1)
    /\ last = [op |-> "initConnections", configs |-> <<"main">>,
               openThrows |-> {}]
    /\ live = SqlSet(connections)
    /\ defaultDbAlias = "main"
    /\ initCalls = 1
    /\ sd = SdIdle
    /\ db = {}
    /\ tx = TxIdle
    /\ txCalls = 0
    /\ srv = NoServer
    /\ session = NoSession
    /\ catalog = UsersCatalog
    /\ rq = NoRequest

NextAuth ==
    \/ \E enableAuth \in BOOLEAN, apiKey \in ApiKeys, transport \in Transports :
          CreateMcpServer(enableAuth, apiKey, transport)
    \/ \E presented \in PresentedKeys : Connect(presented)
    \/ \E fn \in StatementFns \cap GatewayHandlers, answer \in ExecAnswers :
          StatementCall(fn, Omitted, answer)
    \/ \E fn \in TableSchemaFns \cap GatewayHandlers :
          TableSchemaCall(fn, "users", <<"main">>, NoFault)
    \/ \E fn \in AllSchemasFns \cap GatewayHandlers :
          AllSchemasCall(fn, <<"main">>, FALSE, {}, "")

SpecAuth == InitAuth /\ [][NextAuth]_vars

----------------------------------------------------------------------------
(* The configuration specification: the config of one alias is built from
   an environment, then a connection is opened for it. *)

InitCfg ==
    /\ connections = <<>>
    /\ last = [op |-> "none"]
    /\ live = {}
    /\ defaultDbAlias = "main"
    /\ initCalls = 0
    /\ sd = SdIdle
    /\ db = {}
    /\ tx = TxIdle
    /\ txCalls = 0
    /\ srv = NoServer
    /\ session = NoSession
    /\ catalog = NoCatalog
    /\ rq = NoRequest

NextCfg ==
    \/ \E url \in Urls, env \in DiscreteEnvs : CreateDbConfigFromEnvCall(url, env)
    \/ \E fn \in OpenFns : OpenConnectionCall(fn)

SpecCfg == InitCfg /\ [][NextCfg]_vars

----------------------------------------------------------------------------
(* Registry claims.  Every action writes `last`, so last.op = X holds
   exactly in the states X has just produced. *)

\* The alias a resolution looks up, as the code computes it.
LastAlias ==
    IF last.op = "validateDbAlias" THEN EffectiveAlias(last.dbAlias)
    ELSE last.dbAlias[1]

\* C4: for every alias a stored in the registry, a data operation called
\* with alias a resolves to the handle stored under a, which was opened
\* for a, and never to another alias's handle or to a failure.
C4_RegisteredAliasResolvesToItsHandle ==
    (/\ last.op = "validateDbAlias"
     /\ last.dbAlias # Omitted
     /\ last.dbAlias[1] \in KeySet(connections))
    => /\ ~last.out.threw
       /\ last.out.sql = Get(connections, last.dbAlias[1])
       /\ last.out.sql[2] = last.dbAlias[1]

\* C5: a data operation called with the alias omitted resolves exactly as
\* the same operation called with the configured default alias
\* (serverConfig.defaultDbAlias): the same handle, or the same failure.
C5_OmittedAliasResolvesAsConfiguredDefault ==
    (last.op = "validateDbAlias" /\ last.dbAlias = Omitted)
    => LET asDefault == validateDbAlias(<<defaultDbAlias>>, connections)
       IN /\ last.out.threw = asDefault.threw
          /\ last.out.sql = asDefault.sql

\* C6: whenever the alias a resolution looks up is not in the registry,
\* the resolution fails with a connection-not-found error that names that
\* alias and lists the aliases registered at that moment.
C6_AbsentAliasFailsNamingAliasAndRegistered ==
    (/\ last.op \in {"validateDbAlias", "fetchTableSchema"}
     /\ LastAlias \notin KeySet(connections))
    => /\ last.out.threw
       /\ last.out.error.kind = "ConnectionNotFound"
       /\ last.out.error.alias = LastAlias
       /\ last.out.error.listsAvailable
       /\ last.out.error.available = Keys(connections)

\* C7: when initConnections returns for a non-empty mapping, the registry
\* holds exactly the mapping's aliases whose postgres() call did not throw,
\* each with a live handle opened by this very call for that alias.
C7_InitRegistersExactlyTheOpenedAliases ==
    (last.op = "initConnections" /\ Len(last.configs) > 0)
    => /\ KeySet(connections) = Range(last.configs) \ last.openThrows
       /\ Len(connections) = Cardinality(KeySet(connections))
       /\ \A i \in DOMAIN connections :
             /\ connections[i].sql = <<initCalls, connections[i].alias>>
             /\ connections[i].sql \in live

\* C7 witness: an initConnections in which one open failed and another
\* succeeded, while an alias of the earlier registry (still in the snapshot
\* of a closeConnections in flight) is not part of the new mapping.
C7_Witness ==
    /\ last.op = "initConnections"
    /\ last.openThrows # {}
    /\ connections # <<>>
    /\ sd.pc = "awaiting"
    /\ \E a \in Range(sd.aliases) :
          a \notin Range(last.configs) /\ a \notin KeySet(connections)

\* C8 as stated: after initConnections with an empty mapping the registry
\* holds no alias, whatever it held before.
C8_EmptyInitLeavesRegistryEmpty ==
    (last.op = "initConnections" /\ Len(last.configs) = 0)
    => connections = <<>>

\* C8 amended: initConnections with an empty mapping changes nothing: the
\* registry and its handles are what they were before the call, so the
\* registry is empty afterwards only if it was empty before.
C8_EmptyInitChangesNothing ==
    [][(/\ initCalls' = initCalls + 1
        /\ Len(last'.configs) = 0)
       => (connections' = connections /\ live' = live)]_vars

\* C8 witness: an initConnections with an empty mapping has returned and
\* the registry still holds live connections.
C8_Witness ==
    /\ last.op = "initConnections"
    /\ Len(last.configs) = 0
    /\ connections # <<>>
    /\ SqlSet(connections) \subseteq live

\* C9: when closeConnections completes it has resolved, not rejected, end()
\* has been invoked on every handle that was registered when it was called
\* (also when an earlier end() rejected), and the registry is empty.
C9_ShutdownClosesEveryHandleAndClears ==
    (last.op = "closeConnections" /\ sd.pc = "done")
    => /\ sd.result = "resolved"
       /\ sd.registered \cap live = {}
       /\ connections = <<>>

\* C9 witness: a completed closeConnections that had two handles to close,
\* one of whose end() rejected.
C9_Witness ==
    /\ last.op = "closeConnections"
    /\ sd.pc = "done"
    /\ Cardinality(sd.registered) >= 2
    /\ sd.rejected # {}
    /\ sd.rejected # sd.registered

\* C23: whenever another call can read the registry, the map is the complete
\* set from before an initConnections or the complete set that call
\* installs: every step that changes the map is an initConnections that
\* replaces it by the handles of all of its mapping's aliases that opened,
\* all opened by that call, or a closeConnections that completes and leaves
\* no entry; no step adds or deletes a single entry of a map that stays.
C23_RegistryIsReplacedWholesale ==
    [][connections' # connections
       => \/ /\ last'.op = "initConnections"
             /\ initCalls' = initCalls + 1
             /\ connections' = CreateConnections(last'.configs,
                                                 last'.openThrows, initCalls')
             /\ SqlSet(connections') \cap SqlSet(connections) = {}
          \/ /\ last'.op = "closeConnections"
             /\ sd'.pc = "done"
             /\ connections' = <<>>]_vars

\* C23 witness: an initConnections has replaced a registry of two entries
\* by two new ones while a closeConnections, suspended at an await, is
\* about to read the map again.
C23_Witness ==
    /\ last.op = "initConnections"
    /\ initCalls = 2
    /\ Len(last.configs) = 2
    /\ Len(connections) = 2
    /\ sd.pc = "awaiting"
    /\ Len(sd.aliases) = 2
    /\ \A i \in DOMAIN connections : connections[i].sql[1] = 2

\* C24: under every interleaving of validateDbAlias with initConnections
\* and closeConnections, a handle validateDbAlias returns is one on which
\* end() has not been invoked.
C24_ResolvedHandleIsNotClosing ==
    (/\ last.op = "validateDbAlias"
     /\ ~last.out.threw
     /\ IsHandle(last.out.sql))
    => last.out.sql \in live

\* C25: after every interleaving of initConnections and closeConnections
\* every connection that was opened and on which end() has not been invoked
\* is the registry's entry for its alias, so that there is at most one per
\* alias.
C25_LiveConnectionsAreRegistered ==
    /\ live \subseteq SqlSet(connections)
    /\ \A g \in live, h \in live : g[2] = h[2] => g = h

\* C30: once closeConnections has completed and as long as no
\* initConnections has registered anything since, every resolution, of
\* whatever alias, fails with the connection-not-found error; and after a
\* later initConnections with a non-empty mapping, the resolution of an
\* alias that call opened returns the handle it opened for that alias.
C30_ShutdownDisablesUntilReinitialized ==
    (/\ last.op \in {"validateDbAlias", "fetchTableSchema"}
     /\ sd.pc = "done")
    => /\ connections = <<>>
          => /\ last.out.threw
             /\ last.out.error.kind = "ConnectionNotFound"
       /\ (/\ last.dbAlias # Omitted
           /\ last.dbAlias[1] \in KeySet(connections))
          => /\ ~last.out.threw
             /\ last.out.sql = Get(connections, last.dbAlias[1])
             /\ last.out.sql \in live

----------------------------------------------------------------------------
(* Transaction claims, checked under SpecTx *)

\* JSON.parse of the string the call returned.
Outcome == tx.outcome.text.json

\* Every statement of the list was run and succeeded.
AllOperationsSucceeded ==
    /\ Len(tx.driver) = tx.n
    /\ \A j \in DOMAIN tx.driver : tx.driver[j].ok

\* The statement that failed (the last one run), as a zero-based index.
FailedIndex == Len(tx.driver) - 1

OperationFailed == tx.driver # <<>> /\ ~tx.driver[Len(tx.driver)].ok

\* C1: when operations 0..k-1 succeeded and operation k failed, the call
\* returns an outcome with success = false and failedOperationIndex = k
\* that has no results, and no write of any operation of the call is in
\* the database.
C1_FailureAtKRollsBackAndReportsK ==
    (tx.pc = "done" /\ OperationFailed)
    => /\ tx.outcome.settled = "resolved"
       /\ Outcome.success = FALSE
       /\ Outcome.failedOperationIndex = FailedIndex
       /\ "results" \notin DOMAIN Outcome
       /\ \A j \in 0 .. tx.n - 1 : <<txCalls, j>> \notin db

\* C1 witness: transaction_tool, first statement succeeded (its write was
\* pending), second one failed.
C1_Witness ==
    /\ tx.pc = "done"
    /\ tx.fn = "transaction_tool"
    /\ OperationFailed
    /\ FailedIndex = 1
    /\ Len(tx.results) = 1

\* What C2 promises of a successful call: success = true, one result per
\* operation in order, each with its own statement's row count, and every
\* write committed.
SuccessWithAllResults ==
    /\ tx.outcome.settled = "resolved"
    /\ Outcome.success = TRUE
    /\ Len(Outcome.results) = tx.n
    /\ \A j \in 1 .. tx.n :
          /\ Outcome.results[j].operation = j - 1
          /\ Outcome.results[j].rowsAffected =
                (IF tx.driver[j].count = NoCount THEN 0
                 ELSE tx.driver[j].count)
    /\ \A j \in 0 .. tx.n - 1 : <<txCalls, j>> \in db

\* C2 as stated, for executeTransaction and a non-empty list: whenever
\* all N operations succeeded, the outcome is the success outcome with N
\* results and all writes are committed.
C2_AllOperationsSucceedImpliesSuccess ==
    (/\ tx.pc = "done"
     /\ tx.fn = "executeTransaction"
     /\ tx.n >= 1
     /\ AllOperationsSucceeded)
    => SuccessWithAllResults

\* C2 amended: whenever all N operations succeeded and the commit that
\* follows them succeeded, the outcome is the success outcome with N
\* results in order and all writes are committed (both functions).
C2_CommittedImpliesSuccessWithAllResults ==
    (/\ tx.pc = "done"
     /\ AllOperationsSucceeded
     /\ tx.scope = "committed")
    => SuccessWithAllResults

\* C2 witness: a committed call of two statements, one of which the driver
\* reported no count for.
C2_Witness ==
    /\ tx.pc = "done"
    /\ tx.scope = "committed"
    /\ tx.n = 2
    /\ tx.driver[1].count = MaxRows
    /\ tx.driver[2].count = NoCount

\* C3: once the alias resolved, the call never rejects; when opening the
\* scope, an operation or the commit failed, it resolves with a failure
\* outcome carrying success = false, error and failedOperationIndex.
C3_TransactionFailuresAreReturned ==
    (tx.pc = "done" /\ tx.sql # NoSql)
    => /\ tx.outcome.settled = "resolved"
       /\ tx.scope # "committed"
          => /\ Outcome.success = FALSE
             /\ DOMAIN Outcome = {"success", "error", "failedOperationIndex"}

\* C3 witness: all statements succeeded and the commit failed.
C3_Witness ==
    /\ tx.pc = "done"
    /\ tx.n >= 1
    /\ AllOperationsSucceeded
    /\ tx.scope = "rolledBack"
    /\ tx.fn = "executeTransaction"

\* C10: when the scope could not be opened, the outcome is success = false
\* with failedOperationIndex = -1 and the generic error text built from
\* the open failure's message, and no statement was issued.
C10_OpenFailureReportsMinusOne ==
    (tx.pc = "done" /\ tx.sql # NoSql /\ tx.scope = "none")
    => /\ tx.outcome.settled = "resolved"
       /\ Outcome.success = FALSE
       /\ Outcome.failedOperationIndex = -1
       /\ Outcome.error = GenericError(tx.fn, tx.thrown)
       /\ tx.issued = <<>>
       /\ tx.driver = <<>>

\* C10 witness: the driver failed to open the scope for a non-empty list.
C10_Witness ==
    /\ tx.pc = "done"
    /\ IsHandle(tx.sql)
    /\ tx.scope = "none"
    /\ tx.n >= 1
    /\ tx.thrown # ""

\* The driver raised an error in the finished call: opening the scope, a
\* statement or the commit failed.
DriverFailed ==
    /\ tx.pc = "done"
    /\ IsHandle(tx.sql)
    /\ tx.scope # "committed"
    /\ ~ProgressThrows(tx)

\* C11: for every alias stored in the registry, executeTransaction called
\* with that alias and an empty operations list (the driver raising no
\* error) commits and returns exactly success = true with results = [].
C11_EmptyListCommitsWithEmptyResults ==
    (/\ tx.pc = "done"
     /\ tx.fn = "executeTransaction"
     /\ tx.n = 0
     /\ tx.dbAlias # Omitted
     /\ tx.dbAlias[1] \in KeySet(connections)
     /\ ~DriverFailed)
    => /\ tx.outcome.settled = "resolved"
       /\ tx.scope = "committed"
       /\ Outcome = TransactionSuccess(<<>>)

\* C12: in a transaction_tool call whose progress report blocks or fails,
\* the statements run, the commit-or-rollback decision and the outcome are
\* those of the driver's answers alone: every statement up to the first
\* failing one is issued, a rollback is caused by a driver error only, and
\* a failure outcome names the failed statement or a driver error.
C12_ProgressReportsHaveNoEffect ==
    (/\ tx.pc = "done"
     /\ tx.fn = "transaction_tool"
     /\ tx.reportProgress # "present"
     /\ IsHandle(tx.sql)
     /\ tx.scope # "none")
    => /\ Len(tx.issued) = tx.n \/ OperationFailed
       /\ tx.scope = "rolledBack" => tx.thrown \in DriverMessages
       /\ Outcome.success = FALSE
          => \/ OperationFailed /\ Outcome.failedOperationIndex = FailedIndex
             \/ \E m \in DriverMessages :
                   Outcome.error = GenericError(tx.fn, m)

----------------------------------------------------------------------------
(* Gateway claims.  Every gateway call writes rq, so rq.op = X holds
   exactly in the states X has just produced. *)

\* The presented key is missing or is not the configured key.
BadKey == session.key = NoKey \/ session.key # srv.apiKey

\* C13: on a network transport of a server whose configuration enables
\* authentication, a client whose API key is missing or differs from the
\* configured key has no accepted session, so that no tool or resource
\* handler runs for it.
C13_EnabledAuthRejectsBadKeys ==
    (/\ srv.created
     /\ IsNetwork(srv.transport)
     /\ srv.enableAuth
     /\ session.state # "none"
     /\ BadKey)
    => /\ session.state = "rejected"
       /\ \A fn \in GatewayHandlers : ~MayRun(fn)

\* The kind of an error: the outermost prefix of its message.
ErrorKind(out) == out.message[1]

QueryExecutionKinds == {"Query execution failed: ", "Query error: "}
CommandExecutionKinds == {"Command execution failed: ", "Execution error: "}
ConnectionNotFoundKinds == {"Database connection '", "Database connection error: "}

\* C14: when the driver raises an error for the statement of a call whose
\* alias resolved to a connection, the call fails, with an error of the
\* query-execution kind for executeQuery and query_tool and of the
\* command-execution kind for executeCommand and execute_tool, which is
\* not the kind of a connection that was not found, and the message ends
\* with the driver's message.
C14_DriverErrorHasExecutionKind ==
    (/\ rq.op \in StatementFns
     /\ IsHandle(rq.sql)
     /\ ~rq.answer.ok)
    => /\ rq.out.settled = "rejected"
       /\ rq.op \in {"executeQuery", "query_tool"}
             => ErrorKind(rq.out) \in QueryExecutionKinds
       /\ rq.op \in {"executeCommand", "execute_tool"}
             => ErrorKind(rq.out) \in CommandExecutionKinds
       /\ ErrorKind(rq.out) \notin ConnectionNotFoundKinds
       /\ rq.out.message[Len(rq.out.message)] = rq.answer.message

\* C15: when the statement of executeCommand or execute_tool ran, the call
\* returns exactly "Rows affected: n" with n the number of rows affected,
\* which is 0 when the driver reports no count.
C15_ExecuteReturnsRowsAffected ==
    (/\ rq.op \in {"executeCommand", "execute_tool"}
     /\ IsHandle(rq.sql)
     /\ rq.answer.ok)
    => rq.out = Returns(Str(<<"Rows affected: ",
                              ToString(IF rq.answer.count = NoCount THEN 0
                                       ELSE rq.answer.count)>>))

\* C29: for the same statement, alias and driver answer, executeCommand
\* returns the same string as execute_tool.
C29_ExecuteCommandAgreesWithExecuteTool ==
    (/\ rq.op \in {"executeCommand", "execute_tool"}
     /\ IsHandle(rq.sql)
     /\ rq.answer.ok)
    => executeCommand(rq.dbAlias, rq.answer, connections)
       = execute_tool(rq.dbAlias, rq.answer, connections)

\* The condition a getTableSchema failure is reported as: by the prefix of
\* its message, and under the general prefix by the text that follows.
ReportedAs(out) ==
    IF out.message[1] = "Permission denied accessing table '"
    THEN "PermissionDenied"
    ELSE IF out.message[1] =
              "Database connection error while retrieving schema for '"
    THEN "ConnectionError"
    ELSE IF Len(out.message) < 4 THEN "Unknown"
    ELSE IF out.message[4] = "Table '" THEN "TableNotFound"
    ELSE IF out.message[4] = "No columns found for table '"
    THEN "NoColumnsFound"
    ELSE "DriverError"

\* C16: getTableSchema, when the driver answers its queries, fails with the
\* table-not-found condition exactly when the table is absent and with the
\* no-columns condition exactly when the table exists with zero columns,
\* whatever the table's name.
C16_AbsentAndEmptyTablesAreToldApart ==
    (rq.op = "getTableSchema" /\ rq.fault = NoFault)
    => /\ catalog[rq.tableName] = Absent
          <=> (rq.out.settled = "rejected"
               /\ ReportedAs(rq.out) = "TableNotFound")
       /\ catalog[rq.tableName] = 0
          <=> (rq.out.settled = "rejected"
               /\ ReportedAs(rq.out) = "NoColumnsFound")

\* C17: the Table Schema resource, read for a resolved alias and a table
\* that does not exist, returns the text "[]".
C17_ResourceReturnsEmptyArrayForMissingTable ==
    (/\ rq.op = "Table Schema"
     /\ rq.dbAlias = <<"main">>
     /\ rq.fault = NoFault
     /\ catalog[rq.tableName] = Absent)
    => rq.out = Returns(EmptyArrayText)

\* C18: schema_tool, called for a resolved alias and a table that does not
\* exist, returns a string that parses to the empty array.
C18_SchemaToolReturnsEmptyArrayForMissingTable ==
    (/\ rq.op = "schema_tool"
     /\ rq.dbAlias = <<"main">>
     /\ rq.fault = NoFault
     /\ catalog[rq.tableName] = Absent)
    => /\ rq.out.settled = "resolved"
       /\ rq.out.text = [json |-> <<>>]

\* C19: getAllTableSchemas, when the tables were listed, succeeds with
\* exactly one entry per listed table, in the listed order; the entry of a
\* table whose schema fetch failed is the empty schema and every other
\* entry is the table's columns.
C19_OneEntryPerListedTable ==
    (rq.op = "getAllTableSchemas" /\ ~rq.listFails)
    => LET tables == listTables(catalog)
       IN /\ rq.out.settled = "resolved"
          /\ Len(rq.out.value) = Len(tables)
          /\ \A i \in DOMAIN tables :
                /\ rq.out.value[i].name = tables[i]
                /\ rq.out.value[i].schema =
                      (IF tables[i] \in rq.failing \/ catalog[tables[i]] = 0
                       THEN <<>>
                       ELSE Columns(tables[i], catalog))

\* A value the serializer returned is a string.
IsString(text) == DOMAIN text \in {{"json"}, {"str"}}

\* C20: for every input value safeJsonStringify returns a string, and for
\* a value that cannot be serialized that string is "[]".
C20_SerializerReturnsAString ==
    rq.op = "safeJsonStringify"
    => /\ rq.out.settled = "resolved"
       /\ IsString(rq.out.value)
       /\ rq.data.kind \in ThrowingKinds => rq.out.value = EmptyArrayText

----------------------------------------------------------------------------
(* Claims on the order of the statements of a transaction and on how a
   call ends, checked under SpecTx *)

\* Statements handed to the driver whose answer is still awaited.
InFlight == Len(tx.issued) - Len(tx.driver)

\* C26: within one transaction call the statements are handed to the
\* driver in ascending index order, at most one is awaited at any time, and
\* statement i+1 is handed over only after statement i has succeeded.
C26_OperationsAreIssuedOneAfterTheOther ==
    /\ \A k \in DOMAIN tx.issued : tx.issued[k] = k - 1
    /\ InFlight \in {0, 1}
    /\ InFlight = 1 <=> tx.pc = "op"
    /\ \A k \in DOMAIN tx.issued :
          k > 1 => (k - 1 \in DOMAIN tx.driver /\ tx.driver[k - 1].ok)

\* C26 witness: the second statement of a call is awaited, the first one
\* has succeeded.
C26_Witness ==
    /\ tx.pc = "op"
    /\ tx.issued = <<0, 1>>
    /\ Len(tx.driver) = 1
    /\ tx.driver[1].ok

\* C27: once statement k of a call has failed, no statement with a greater
\* index is handed to the driver in that call.
C27_NothingIsIssuedAfterAFailure ==
    \A k \in DOMAIN tx.driver :
        ~tx.driver[k].ok => (Len(tx.issued) = k /\ tx.pc = "done")

\* C27 witness: a call with two statements has ended after its first
\* statement failed.
C27_Witness ==
    /\ tx.pc = "done"
    /\ tx.n = 2
    /\ Len(tx.driver) = 1
    /\ ~tx.driver[1].ok
    /\ tx.issued = <<0>>

\* The call ended with its scope committed and its writes in the database.
Committed ==
    /\ tx.scope = "committed"
    /\ \A j \in 0 .. tx.n - 1 : Write(j) \in db

\* The call ended with nothing of it in the database: its scope was rolled
\* back or was never opened.
RolledBack ==
    /\ tx.scope \in {"rolledBack", "none"}
    /\ \A j \in 0 .. tx.n - 1 : Write(j) \notin db

\* C28: a transaction call that has ended is either committed or rolled
\* back, never both and never neither; the outcome it returns has success =
\* true exactly when it is committed; and when all statements succeeded and
\* the commit failed the call returns an outcome with success = false.
C28_SuccessExactlyWhenCommitted ==
    tx.pc = "done"
    => /\ Committed # RolledBack
       /\ tx.outcome.settled = "resolved"
          => (Outcome.success = TRUE <=> Committed)
       /\ (AllOperationsSucceeded /\ tx.scope = "rolledBack")
          => (tx.outcome.settled = "resolved" /\ Outcome.success = FALSE)

\* C28 witness: both statements of an executeTransaction call succeeded
\* and the commit failed.
C28_Witness ==
    /\ tx.pc = "done"
    /\ tx.fn = "executeTransaction"
    /\ tx.n = 2
    /\ AllOperationsSucceeded
    /\ tx.scope = "rolledBack"
    /\ Outcome.success = FALSE

----------------------------------------------------------------------------
(* Configuration claims *)

\* The TLS behaviour the spec assigns to a configured mode.
SpecifiedTls(mode) ==
    IF mode = "disable" THEN "none"
    ELSE IF mode \in {"verify-ca", "verify-full"} THEN "verified"
    ELSE "unverified"

\* C21: the connection the registry opens for a config whose TLS mode is a
\* non-empty value uses no TLS for disable, TLS without certificate
\* verification for require, TLS with verification for verify-ca and
\* verify-full, and TLS without verification for any other value.
C21_RegistryTlsFollowsMode ==
    (/\ rq.op = "initConnections"
     /\ rq.config.ssl # Missing
     /\ rq.config.ssl # <<"">>)
    => /\ ~rq.out.threw
       /\ rq.out.tls = SpecifiedTls(rq.config.ssl[1])

\* The variables or URL components the config was built from, as optional
\* values: unset, or empty in the URL, is missing.
Given(field) ==
    IF rq.url.form = "valid"
    THEN (IF field = "host" THEN <<rq.url.parts.hostname>>
          ELSE IF field = "port" THEN <<rq.url.parts.port>>
          ELSE IF field = "database" THEN <<rq.url.parts.database>>
          ELSE IF field = "user" THEN <<rq.url.parts.username>>
          ELSE <<rq.url.parts.password>>)
    ELSE (IF field = "host" THEN rq.env.host
          ELSE IF field = "port" THEN rq.env.port
          ELSE IF field = "database" THEN rq.env.name
          ELSE IF field = "user" THEN rq.env.user
          ELSE rq.env.password)

IsMissing(opt) == opt = Missing \/ opt = <<"">>

\* C22: in the config createDbConfigFromEnv builds, from a connection
\* string or from the discrete variables, a missing host is localhost, a
\* missing port 5432, a missing database postgres, a missing user postgres
\* and a missing password the empty string.
C22_MissingParametersGetDefaults ==
    rq.op = "createDbConfigFromEnv"
    => /\ IsMissing(Given("host")) => rq.out.host = "localhost"
       /\ IsMissing(Given("port")) => rq.out.port = 5432
       /\ IsMissing(Given("database")) => rq.out.database = "postgres"
       /\ IsMissing(Given("user")) => rq.out.user = "postgres"
       /\ IsMissing(Given("password")) => rq.out.password = ""

====
